---- MODULE Spec2Model ----
(***************************************************************************)
(* Phone-number OTP authentication of the Travease backend:                *)
(* src/src/controllers/auth.controller.js (sendOTP, verifyOTP,             *)
(* formatPhoneNumber) over the user store (models/user.model, not part of  *)
(* the sources at hand: findByPhoneNumber, createOrUpdate, clearOTP).      *)
(*                                                                         *)
(* JavaScript strings are sequences of one-character strings.  JavaScript  *)
(* values that may be of several types are tagged records.  Every await    *)
(* of a handler is one step of the model: the awaited operation is applied *)
(* and the handler runs to its next await or to its response.              *)
(***************************************************************************)
EXTENDS Integers, Sequences, FiniteSets, TLC

VARIABLES
    nodeEnv,        \* process.env.NODE_ENV
    smsConfigured,  \* client && process.env.TWILIO_PHONE_NUMBER
    now,            \* the clock read by Date.now() and new Date(), in ms
    ticks,          \* number of clock advances so far (bounds the clock)
    users,          \* the user store: normalized phone number -> record
    reqs,           \* the requests, in arrival order, with their handler state
    trace           \* history: the store and notifier operations, in order

vars == <<nodeEnv, smsConfigured, now, ticks, users, reqs, trace>>

----------------------------------------------------------------------------
(* Bounds *)

MaxReq == 2         \* requests per behaviour, concurrent specification
MaxSeqReq == 4      \* requests per behaviour, sequential specification
MaxWideReq == 2     \* requests per behaviour, wide specification
MaxTicks == 2       \* clock advances per behaviour, sequential specifications
MaxConcTicks == 1   \* clock advances per behaviour, concurrent specification
MaxSpellReq == 2    \* requests per behaviour, spellings specification
MaxFaultReq == 2    \* requests per behaviour, fault specification
MaxOrderReq == 3    \* requests per behaviour, order specification

----------------------------------------------------------------------------
(* JavaScript values *)

Undefined == [t |-> "undefined"]
Null == [t |-> "null"]
Str(s) == [t |-> "str", v |-> s]
Num(n) == [t |-> "num", v |-> n]

Digits == {"0", "1", "2", "3", "4", "5", "6", "7", "8", "9"}
DigitChars == <<"0", "1", "2", "3", "4", "5", "6", "7", "8", "9">>
\* the characters that String.prototype.trim strips (WhiteSpace and
\* LineTerminator): space, tab, LF, CR, FF, and on the second line U+000B,
\* U+00A0, U+FEFF and U+1680. The others (U+2000 to U+200A, U+2028, U+2029,
\* U+202F, U+205F, U+3000) cannot be written in a string of this module, so
\* no string of the model contains them.
Whitespace ==
    {" ", "\t", "\n", "\r", "\f",
     "", " ", "﻿", " "}

\* !v for the values a JSON body can carry here
Falsy(v) ==
    \/ v.t \in {"undefined", "null"}
    \/ v.t = "str" /\ v.v = <<>>
    \/ v.t = "num" /\ v.v = 0

RECURSIVE NatToString(_)
NatToString(n) ==
    IF n < 10 THEN <<DigitChars[n + 1]>>
    ELSE NatToString(n \div 10) \o <<DigitChars[(n % 10) + 1]>>

\* String(v) for a string, a non-negative integer, undefined or null
ToStr(v) ==
    IF v.t = "num" THEN NatToString(v.v)
    ELSE IF v.t = "undefined" THEN <<"u", "n", "d", "e", "f", "i", "n", "e", "d">>
    ELSE IF v.t = "null" THEN <<"n", "u", "l", "l">>
    ELSE v.v

RECURSIVE TrimStart(_)
TrimStart(s) ==
    IF s # <<>> /\ Head(s) \in Whitespace THEN TrimStart(Tail(s)) ELSE s

RECURSIVE TrimEnd(_)
TrimEnd(s) ==
    IF s # <<>> /\ s[Len(s)] \in Whitespace
    THEN TrimEnd(SubSeq(s, 1, Len(s) - 1)) ELSE s

\* String.prototype.trim
Trim(s) == TrimEnd(TrimStart(s))

\* s.replace(/\D/g, '')
RECURSIVE StripNonDigits(_)
StripNonDigits(s) ==
    IF s = <<>> THEN <<>>
    ELSE IF Head(s) \in Digits THEN <<Head(s)>> \o StripNonDigits(Tail(s))
    ELSE StripNonDigits(Tail(s))

\* s.startsWith(p)
StartsWith(s, p) == Len(s) >= Len(p) /\ SubSeq(s, 1, Len(p)) = p

----------------------------------------------------------------------------
(* auth.controller.js: pure parts *)

CountryCode == <<"9", "1">>

formatPhoneNumber(phoneNumber) ==
    LET digits == StripNonDigits(phoneNumber) IN
    IF ~StartsWith(digits, CountryCode)
    THEN <<"+">> \o CountryCode \o digits
    ELSE <<"+">> \o digits

\* formatPhoneNumber called on a value without a replace method throws
FormatThrows(v) == v.t # "str"

\* mutant of OtpOfRandom: 100000 is not added
OtpOfRandomFromZero(k) == NatToString(k)

\* Math.floor(100000 + Math.random() * 900000).toString(), for
\* Math.random() = k / 900000 with k in 0..899999
OtpOfRandom(k) == NatToString(100000 + k)

\* the values of k tried: the least and the greatest
RandomSamples == {0, 899999}

OTP_TTL_MS == 10 * 60 * 1000

\* new Date(Date.now() + 10 * 60 * 1000)
OtpExpiry(t) == t + OTP_TTL_MS

\* mutant of otpRegex: the pattern without its anchors, /\d{6}/
otpRegexUnanchored(s) ==
    \E a \in 1..Len(s) :
        a + 5 <= Len(s) /\ \A i \in a..(a + 5) : s[i] \in Digits

\* /^\d{6}$/.test(s)
otpRegex(s) == Len(s) = 6 /\ \A i \in 1..Len(s) : s[i] \in Digits

\* String(otp).trim()
CleanOtp(otp) == Trim(ToStr(otp))

\* mutant of UpsertArgs: the code written is not the code of the request
UpsertArgsStaleCode(formattedPhoneNumber, otp, otpExpires) ==
    [phoneNumber |-> formattedPhoneNumber, otp |-> Str(NatToString(100000)),
     otpExpires |-> otpExpires]

\* mutant of UpsertArgs: the expiry is not passed on
UpsertArgsNoExpiry(formattedPhoneNumber, otp, otpExpires) ==
    [phoneNumber |-> formattedPhoneNumber, otp |-> otp, otpExpires |-> Null]

\* the argument of User.createOrUpdate
UpsertArgs(formattedPhoneNumber, otp, otpExpires) ==
    [phoneNumber |-> formattedPhoneNumber, otp |-> otp, otpExpires |-> otpExpires]

\* mutant of IsExpired: the comparison is the wrong way round
IsExpiredFlipped(user, t) == user.otpExpires # Null /\ user.otpExpires.v > t

\* user.otpExpires && user.otpExpires < new Date()
IsExpired(user, t) == user.otpExpires # Null /\ user.otpExpires.v < t

\* mutant of IsOtpValid: only the lengths are compared
IsOtpValidLoose(user, cleanOtp) == Len(Trim(ToStr(user.otp))) = Len(cleanOtp)

\* String(user.otp).trim() === cleanOtp
IsOtpValid(user, cleanOtp) == Trim(ToStr(user.otp)) = cleanOtp

\* jwt.sign({ id, phoneNumber }, secret, { expiresIn: '7d' }): the token is
\* represented by what it decodes to
SignToken(user, formattedPhoneNumber) ==
    [t |-> "jwt", id |-> user.id, phoneNumber |-> formattedPhoneNumber,
     expiresIn |-> "7d"]

----------------------------------------------------------------------------
(* models/user.model: the user store *)

NoUser == [t |-> "null"]

findByPhoneNumber(store, key) ==
    IF key \in DOMAIN store THEN store[key] ELSE NoUser

createOrUpdate(store, args) ==
    LET key == args.phoneNumber
        id == IF key \in DOMAIN store THEN store[key].id
              ELSE Cardinality(DOMAIN store) + 1
        rec == [t |-> "user", id |-> id, phoneNumber |-> key,
                otp |-> args.otp, otpExpires |-> args.otpExpires]
    IN [k \in (DOMAIN store) \cup {key} |-> IF k = key THEN rec ELSE store[k]]

clearOTP(store, key) ==
    [k \in DOMAIN store |->
        IF k = key THEN [store[k] EXCEPT !.otp = Null, !.otpExpires = Null]
        ELSE store[k]]

----------------------------------------------------------------------------
(* Requests and responses *)

Date(t) == [t |-> "date", v |-> t]

NoRes == [t |-> "none"]

\* res.status(status).json({ success, message, token, development, error,
\* debug })
Res(status, success, message) ==
    [t |-> "res", status |-> status, success |-> success, message |-> message,
     token |-> Undefined, development |-> Undefined, error |-> Undefined,
     debug |-> Undefined]

\* the messages of verifyOTP's responses after the read (lines 193-236)
MsgNoOtp == "No OTP found. Please request a new OTP"
MsgExpired == "OTP has expired. Please request a new OTP"
MsgInvalid == "Invalid OTP. Please try again"
MsgVerified == "OTP verified successfully"
MsgFormat == "Please enter a valid 6-digit OTP"

\* a request that has just arrived
NewReq(kind, body) ==
    [kind |-> kind, pc |-> "start", body |-> body,
     formattedPhoneNumber |-> <<>>, otp |-> <<>>, otpExpires |-> 0,
     user |-> NoUser, res |-> NoRes,
     issuedAt |-> -1,   \* history: the time at which its code was generated
     readAt |-> 0,      \* history: the place of its read in trace
     readTime |-> 0]    \* history: the time of its read

Respond(r, res) == [r EXCEPT !.pc = "done", !.res = res]

\* an entry of the history: the operation, the request that made it and the
\* store key
Event(op, i, key) == [op |-> op, req |-> i, key |-> key]

IsProduction == nodeEnv = "production"

----------------------------------------------------------------------------
(* sendOTP *)

\* lines 107-116: the response that carries the generated code
SendFallbackResponse(r) ==
    [Res(200, TRUE, "OTP generated successfully") EXCEPT
        !.development = [t |-> "object", otp |-> Str(r.otp), expiresAt |-> Date(r.otpExpires)]]

\* lines 118-125: the catch block of sendOTP
SendCatchResponse(message) ==
    [Res(500, FALSE, "Failed to generate and send OTP") EXCEPT
        !.error = IF ~IsProduction THEN Str(message) ELSE Undefined]

\* mutant of SendCaught: the call that throws is outside the try block, the
\* exception leaves the handler and the request gets no response
SendUncaught(r, message) == [r EXCEPT !.pc = "unhandled"]

\* lines 59 and 118-125: what is thrown inside the try block is answered by
\* the catch block
SendCaught(r, message) == Respond(r, SendCatchResponse(message))

\* mutant of SendSmsFailedResponse: in production mode the failure of the
\* delivery is thrown on to the catch block of sendOTP
SendSmsFailedRethrown(r) ==
    IF IsProduction THEN SendCatchResponse("delivery failed")
    ELSE SendFallbackResponse(r)

\* mutant of SendSmsFailedResponse: a failed delivery is fatal in every mode
SendSmsFailedAlways500(r) == Res(500, FALSE, "Failed to send OTP via SMS")

\* lines 93-104 and 107-116: the outcome of a failed delivery
SendSmsFailedResponse(r) ==
    IF IsProduction THEN Res(500, FALSE, "Failed to send OTP via SMS")
    ELSE SendFallbackResponse(r)

\* mutant of SendAfterUpsert: the handler calls the upsert again
SendAfterUpsertRepeats(r) == [r EXCEPT !.pc = "createOrUpdate"]

\* lines 79-92 and 107-116: after the upsert, either wait for the delivery
\* or answer with the fallback response
SendAfterUpsert(r) ==
    IF smsConfigured THEN [r EXCEPT !.pc = "sms"]
    ELSE Respond(r, SendFallbackResponse(r))

\* lines 46-76: from the arrival of the request to the call of createOrUpdate
sendOTP(body) ==
    LET r == NewReq("send", body)
        phoneNumber == body.phoneNumber
    IN /\ \E k \in RandomSamples :
            reqs' = Append(reqs,
                IF Falsy(phoneNumber)
                THEN Respond(r, Res(400, FALSE, "Phone number is required"))
                ELSE IF FormatThrows(phoneNumber)
                THEN SendCaught(r, "phoneNumber.replace is not a function")
                ELSE [r EXCEPT
                        !.pc = "createOrUpdate",
                        !.formattedPhoneNumber = formatPhoneNumber(phoneNumber.v),
                        !.otp = OtpOfRandom(k),
                        !.otpExpires = OtpExpiry(now),
                        !.issuedAt = now])
       /\ UNCHANGED <<nodeEnv, smsConfigured, now, ticks, users, trace>>

\* lines 72-92, 107-116: the upsert is applied and the handler resumes
sendOTP_createOrUpdate(i) ==
    LET r == reqs[i] IN
    /\ r.kind = "send" /\ r.pc = "createOrUpdate"
    /\ users' = createOrUpdate(users,
                    UpsertArgs(r.formattedPhoneNumber, Str(r.otp), Date(r.otpExpires)))
    /\ trace' = Append(trace, Event("upsert", i, r.formattedPhoneNumber))
    /\ reqs' = [reqs EXCEPT ![i] = SendAfterUpsert(r)]
    /\ UNCHANGED <<nodeEnv, smsConfigured, now, ticks>>

\* lines 82-116: client.messages.create settles and the handler resumes
sendOTP_sms(i, delivered) ==
    LET r == reqs[i] IN
    /\ r.kind = "send" /\ r.pc = "sms"
    /\ trace' = Append(trace, Event(IF delivered THEN "sms" ELSE "smsFailed", i, r.formattedPhoneNumber))
    /\ reqs' = [reqs EXCEPT ![i] =
                  IF delivered THEN Respond(r, Res(200, TRUE, "OTP sent successfully"))
                  ELSE Respond(r, SendSmsFailedResponse(r))]
    /\ UNCHANGED <<nodeEnv, smsConfigured, now, ticks, users>>

----------------------------------------------------------------------------
(* verifyOTP *)

\* lines 239-242: the catch block of verifyOTP
VerifyCatchResponse(message) ==
    [Res(500, FALSE, "Server error") EXCEPT !.error = Str(message)]

\* lines 141 and 239-242: what is thrown inside the try block is answered by
\* the catch block
VerifyCaught(r, message) == Respond(r, VerifyCatchResponse(message))

\* lines 142-173: the checks made before the store is touched; the failure
\* response, or NoRes when the input passes
VerifyValidate(body) ==
    IF Falsy(body.phoneNumber) THEN Res(400, FALSE, "Phone number is required")
    ELSE IF Falsy(body.otp) THEN Res(400, FALSE, "OTP is required")
    ELSE IF ~otpRegex(CleanOtp(body.otp))
         THEN [Res(400, FALSE, MsgFormat) EXCEPT
                  !.debug = [t |-> "object", providedOtp |-> body.otp,
                             cleanOtp |-> Str(CleanOtp(body.otp)),
                             isValid |-> otpRegex(CleanOtp(body.otp))]]
    ELSE NoRes

\* mutant of VerifyCheck: the candidate is compared before the expiry is
\* looked at
VerifyCheckCompareFirst(user, cleanOtp, t) ==
    IF user = NoUser THEN Res(404, FALSE, "User not found")
    ELSE IF Falsy(user.otp)
         THEN Res(400, FALSE, MsgNoOtp)
    ELSE IF ~IsOtpValid(user, cleanOtp)
         THEN Res(400, FALSE, MsgInvalid)
    ELSE IF IsExpired(user, t)
         THEN Res(400, FALSE, MsgExpired)
    ELSE NoRes

\* lines 183-219: the checks made on the record that was read; the failure
\* response, or NoRes when the code is accepted
VerifyCheck(user, cleanOtp, t) ==
    IF user = NoUser THEN Res(404, FALSE, "User not found")
    ELSE IF Falsy(user.otp)
         THEN Res(400, FALSE, MsgNoOtp)
    ELSE IF IsExpired(user, t)
         THEN Res(400, FALSE, MsgExpired)
    ELSE IF ~IsOtpValid(user, cleanOtp)
         THEN Res(400, FALSE, MsgInvalid)
    ELSE NoRes

\* mutant of StoreAfterCheck: a wrong candidate consumes the stored code
StoreAfterCheckLockout(store, r, failed) ==
    IF failed # NoRes /\ failed.message = MsgInvalid
    THEN clearOTP(store, r.formattedPhoneNumber)
    ELSE store

\* lines 183-219: the checks write nothing to the store
StoreAfterCheck(store, r, failed) == store

\* mutant of VerifyClear: the stored code is not cleared
VerifyClearSkipped(store, r) == store

\* line 222: await User.clearOTP(formattedPhoneNumber)
VerifyClear(store, r) == clearOTP(store, r.formattedPhoneNumber)

\* mutant of VerifySuccessResponse: the token is left out of the response
VerifySuccessResponseNoToken(r) == Res(200, TRUE, MsgVerified)

\* lines 225-238: the success response
VerifySuccessResponse(r) ==
    [Res(200, TRUE, MsgVerified) EXCEPT
        !.token = SignToken(r.user, r.formattedPhoneNumber)]

\* lines 136-181: from the arrival of the request to the call of
\* findByPhoneNumber
verifyOTP(body) ==
    LET r == NewReq("verify", body)
        invalid == VerifyValidate(body)
    IN /\ reqs' = Append(reqs,
            IF invalid # NoRes THEN Respond(r, invalid)
            ELSE IF FormatThrows(body.phoneNumber)
                 THEN VerifyCaught(r, "phoneNumber.replace is not a function")
            ELSE [r EXCEPT !.pc = "findByPhoneNumber",
                           !.formattedPhoneNumber = formatPhoneNumber(body.phoneNumber.v),
                           !.otp = CleanOtp(body.otp)])
       /\ UNCHANGED <<nodeEnv, smsConfigured, now, ticks, users, trace>>

\* lines 181-222: the record is read and checked; on a match clearOTP is called
verifyOTP_findByPhoneNumber(i) ==
    LET r == reqs[i]
        user == findByPhoneNumber(users, r.formattedPhoneNumber)
        failed == VerifyCheck(user, r.otp, now)
        read == [r EXCEPT !.user = user, !.readAt = Len(trace) + 1,
                           !.readTime = now]
    IN /\ r.kind = "verify" /\ r.pc = "findByPhoneNumber"
       /\ trace' = Append(trace, Event("find", i, r.formattedPhoneNumber))
       /\ reqs' = [reqs EXCEPT ![i] =
                     IF failed # NoRes THEN Respond(read, failed)
                     ELSE [read EXCEPT !.pc = "clearOTP"]]
       /\ users' = StoreAfterCheck(users, r, failed)
       /\ UNCHANGED <<nodeEnv, smsConfigured, now, ticks>>

\* lines 222-238: the stored code is cleared, the token signed and returned
verifyOTP_clearOTP(i) ==
    LET r == reqs[i] IN
    /\ r.kind = "verify" /\ r.pc = "clearOTP"
    /\ users' = VerifyClear(users, r)
    /\ trace' = Append(trace, Event("clear", i, r.formattedPhoneNumber))
    /\ reqs' = [reqs EXCEPT ![i] = Respond(r, VerifySuccessResponse(r))]
    /\ UNCHANGED <<nodeEnv, smsConfigured, now, ticks>>

----------------------------------------------------------------------------
(* Collaborators that fail *)

\* line 72: createOrUpdate rejects, nothing is written, and the catch block
\* of sendOTP answers
sendOTP_createOrUpdate_rejects(i) ==
    LET r == reqs[i] IN
    /\ r.kind = "send" /\ r.pc = "createOrUpdate"
    /\ trace' = Append(trace, Event("upsertFailed", i, r.formattedPhoneNumber))
    /\ reqs' = [reqs EXCEPT ![i] = SendCaught(r, "createOrUpdate failed")]
    /\ UNCHANGED <<nodeEnv, smsConfigured, now, ticks, users>>

\* line 181: findByPhoneNumber rejects and the catch block of verifyOTP
\* answers
verifyOTP_findByPhoneNumber_rejects(i) ==
    LET r == reqs[i] IN
    /\ r.kind = "verify" /\ r.pc = "findByPhoneNumber"
    /\ trace' = Append(trace, Event("findFailed", i, r.formattedPhoneNumber))
    /\ reqs' = [reqs EXCEPT ![i] = VerifyCaught(r, "findByPhoneNumber failed")]
    /\ UNCHANGED <<nodeEnv, smsConfigured, now, ticks, users>>

\* line 222: clearOTP rejects, nothing is written, and the catch block of
\* verifyOTP answers
verifyOTP_clearOTP_rejects(i) ==
    LET r == reqs[i] IN
    /\ r.kind = "verify" /\ r.pc = "clearOTP"
    /\ trace' = Append(trace, Event("clearFailed", i, r.formattedPhoneNumber))
    /\ reqs' = [reqs EXCEPT ![i] = VerifyCaught(r, "clearOTP failed")]
    /\ UNCHANGED <<nodeEnv, smsConfigured, now, ticks, users>>

\* lines 222-230 and 239-242: clearOTP is applied, then jwt.sign throws and
\* the catch block of verifyOTP answers
verifyOTP_sign_throws(i) ==
    LET r == reqs[i] IN
    /\ r.kind = "verify" /\ r.pc = "clearOTP"
    /\ users' = VerifyClear(users, r)
    /\ trace' = trace \o <<Event("clear", i, r.formattedPhoneNumber),
                            Event("signFailed", i, r.formattedPhoneNumber)>>
    /\ reqs' = [reqs EXCEPT ![i] = VerifyCaught(r, "jwt.sign failed")]
    /\ UNCHANGED <<nodeEnv, smsConfigured, now, ticks>>

\* server.js lines 39-47: the response of the error handling middleware
ErrorMiddlewareResponse(message) ==
    [Res(500, FALSE, "Something went wrong!") EXCEPT !.error = Str(message)]

\* server.js lines 31 and 39-47: bodyParser.json() cannot parse the body of
\* a request and passes its error to the error handling middleware
errorMiddleware(message) ==
    /\ reqs' = Append(reqs, Respond(NewReq("unparsed", [phoneNumber |-> Undefined, otp |-> Undefined]),
                                    ErrorMiddlewareResponse(message)))
    /\ UNCHANGED <<nodeEnv, smsConfigured, now, ticks, users, trace>>

----------------------------------------------------------------------------
(* The clock *)

\* the clock is observed at the time of issue, then at each expiry time and
\* one millisecond after it
TickStep(n) == IF n % 2 = 0 THEN OTP_TTL_MS ELSE 1

Tick ==
    /\ now' = now + TickStep(ticks)
    /\ ticks' = ticks + 1
    /\ UNCHANGED <<nodeEnv, smsConfigured, users, reqs, trace>>

----------------------------------------------------------------------------
(* Inputs *)

PhoneIN == Str(<<"9", "8", "7", "6", "5", "4", "3", "2", "1", "0">>)
PhoneINFull == Str(<<"+", "9", "1", "9", "8", "7", "6", "5", "4", "3", "2", "1", "0">>)
PhoneUS == Str(<<"+", "1", "5", "5", "5", "1", "2", "3", "4", "5", "6", "7">>)

\* the codes sendOTP can generate here, as a client would type them
GeneratedCodes == {Str(OtpOfRandom(k)) : k \in RandomSamples}

WrongCode == Str(<<"1", "2", "3", "4", "5", "6">>)

\* candidates that are not 6 digits, a padded one and a numeric one
OddCodes ==
    { Str(<<"1", "2", "a", "4", "5", "b">>),
      Str(<<"1", "2", "3", "4", "5">>),
      Str(<<"1", "2", "3", "4", "5", "6", "7">>),
      Str(<<" ", "1", "0", "0", "0", "0", "0", " ">>),
      Str(<<"\t", "1", "0", "0", "0", "0", "0", "\n">>),
      Str(<<>>),
      Num(999999), Num(0), Num(12345), Undefined }

Body(phoneNumber, otp) == [phoneNumber |-> phoneNumber, otp |-> otp]

\* concurrent specification: one phone number, the codes that can be stored
SendBodies == {Body(PhoneIN, Undefined)}
VerifyBodies == {Body(PhoneIN, c) : c \in GeneratedCodes}

\* sequential specification: one phone number, right and wrong codes
SeqSendBodies == {Body(PhoneIN, Undefined)}
SeqVerifyBodies == {Body(PhoneIN, c) : c \in GeneratedCodes \cup {WrongCode}}

\* wide specification: several phone numbers, all kinds of candidates
WidePhones == {PhoneIN, PhoneUS, Undefined}
WideSendBodies == {Body(p, Undefined) : p \in WidePhones}
WideVerifyBodies ==
    {Body(p, c) : p \in WidePhones, c \in GeneratedCodes \cup {WrongCode} \cup OddCodes}

\* spellings specification: national numbers and the same numbers written
\* with the country code
Phone91 == Str(<<"9","1","2","3","4","5","6","7","8","9">>)
Phone91Full == Str(<<"+","9","1","9","1","2","3","4","5","6","7","8","9">>)
SpellPhones == {PhoneIN, PhoneINFull, Phone91, Phone91Full}
SpellSendBodies == {Body(p, Undefined) : p \in SpellPhones}
SpellVerifyBodies == {Body(p, c) : p \in SpellPhones, c \in GeneratedCodes}

\* order specification: one phone number or none, and every kind of code
MalformedCode == Str(<<"1","2","3","4","5">>)
OrderSendBodies == {Body(PhoneIN, Undefined)}
OrderVerifyBodies ==
    {Body(p, c) : p \in {PhoneIN, Undefined},
                  c \in GeneratedCodes \cup {WrongCode, MalformedCode, Undefined}}

\* fault specification: a phone number, a phone number that is not a string,
\* an empty phone number, no phone number
NumberPhone == Num(12345)
FaultSendBodies ==
    {Body(p, Undefined) : p \in {PhoneIN, NumberPhone, Undefined, Str(<<>>)}}
FaultVerifyBodies == {Body(p, c) : p \in {PhoneIN, NumberPhone}, c \in GeneratedCodes}

----------------------------------------------------------------------------
(* Specifications *)

\* The store outlives the server process: when the process starts, the store
\* is empty, or holds what an earlier sendOTP for PhoneIN left in it at the
\* instant the clock of the model starts.
EmptyStore == <<>>

StoredBefore ==
    createOrUpdate(EmptyStore,
        [phoneNumber |-> formatPhoneNumber(PhoneIN.v),
         otp |-> Str(OtpOfRandom(0)),
         otpExpires |-> Date(OtpExpiry(0))])

Init ==
    /\ nodeEnv \in {"production", "development"}
    /\ smsConfigured \in BOOLEAN
    /\ now = 0
    /\ ticks = 0
    /\ users \in {EmptyStore, StoredBefore}
    /\ reqs = <<>>
    /\ trace = <<>>

\* the sequential specifications run the development set-up: an empty store,
\* no Twilio configuration, NODE_ENV other than production
SeqInit == Init /\ ~smsConfigured /\ ~IsProduction /\ users = EmptyStore

CanArrive == Len(reqs) < MaxReq

AllDone == \A i \in 1..Len(reqs) : reqs[i].pc = "done"

\* the steps of the handlers that are under way
Handlers ==
    \/ \E i \in 1..Len(reqs) : sendOTP_createOrUpdate(i)
    \/ \E i \in 1..Len(reqs), delivered \in BOOLEAN : sendOTP_sms(i, delivered)
    \/ \E i \in 1..Len(reqs) : verifyOTP_findByPhoneNumber(i)
    \/ \E i \in 1..Len(reqs) : verifyOTP_clearOTP(i)

\* the same without the Twilio configuration
SeqHandlers ==
    \/ \E i \in 1..Len(reqs) : sendOTP_createOrUpdate(i)
    \/ \E i \in 1..Len(reqs) : verifyOTP_findByPhoneNumber(i)
    \/ \E i \in 1..Len(reqs) : verifyOTP_clearOTP(i)

\* requests arrive at any time
Next ==
    \/ CanArrive /\ \E body \in SendBodies : sendOTP(body)
    \/ CanArrive /\ \E body \in VerifyBodies : verifyOTP(body)
    \/ Handlers
    \/ ticks < MaxConcTicks /\ Tick

Spec == Init /\ [][Next]_vars

\* a request arrives when the requests before it have been answered
SeqNext ==
    \/ Len(reqs) < MaxSeqReq /\ AllDone /\ \E body \in SeqSendBodies : sendOTP(body)
    \/ Len(reqs) < MaxSeqReq /\ AllDone /\ \E body \in SeqVerifyBodies : verifyOTP(body)
    \/ SeqHandlers
    \/ ticks < MaxTicks /\ Tick

SeqSpec == SeqInit /\ [][SeqNext]_vars

\* as SeqSpec, with the wide inputs
WideNext ==
    \/ Len(reqs) < MaxWideReq /\ AllDone /\ \E body \in WideSendBodies : sendOTP(body)
    \/ Len(reqs) < MaxWideReq /\ AllDone /\ \E body \in WideVerifyBodies : verifyOTP(body)
    \/ SeqHandlers
    \/ ticks < MaxTicks /\ Tick

WideSpec == SeqInit /\ [][WideNext]_vars

\* as SeqSpec, with the spellings of the phone numbers
SpellNext ==
    \/ Len(reqs) < MaxSpellReq /\ AllDone /\ \E body \in SpellSendBodies : sendOTP(body)
    \/ Len(reqs) < MaxSpellReq /\ AllDone /\ \E body \in SpellVerifyBodies : verifyOTP(body)
    \/ SeqHandlers
    \/ ticks < MaxTicks /\ Tick

SpellSpec == SeqInit /\ [][SpellNext]_vars

\* as SeqSpec, with requests that fail each of the checks of verifyOTP
OrderNext ==
    \/ Len(reqs) < MaxOrderReq /\ AllDone /\ \E body \in OrderSendBodies : sendOTP(body)
    \/ Len(reqs) < MaxOrderReq /\ AllDone /\ \E body \in OrderVerifyBodies : verifyOTP(body)
    \/ SeqHandlers
    \/ ticks < MaxTicks /\ Tick

OrderSpec == SeqInit /\ [][OrderNext]_vars

\* the steps of the handlers when the store, the notifier and the signer
\* can fail
FaultHandlers ==
    \/ Handlers
    \/ \E i \in 1..Len(reqs) : sendOTP_createOrUpdate_rejects(i)
    \/ \E i \in 1..Len(reqs) : verifyOTP_findByPhoneNumber_rejects(i)
    \/ \E i \in 1..Len(reqs) : verifyOTP_clearOTP_rejects(i)
    \/ \E i \in 1..Len(reqs) : verifyOTP_sign_throws(i)

\* sequential requests in every configuration, with collaborators that can
\* fail and bodies that cannot be parsed
FaultNext ==
    \/ Len(reqs) < MaxFaultReq /\ AllDone /\ \E body \in FaultSendBodies : sendOTP(body)
    \/ Len(reqs) < MaxFaultReq /\ AllDone /\ \E body \in FaultVerifyBodies : verifyOTP(body)
    \/ Len(reqs) < MaxFaultReq /\ AllDone /\ errorMiddleware("Unexpected token")
    \/ FaultHandlers
    \/ ticks < MaxConcTicks /\ Tick

FaultSpec == Init /\ [][FaultNext]_vars

----------------------------------------------------------------------------
(* Reading the history *)

Reqs == 1..Len(reqs)
Sends == {i \in Reqs : reqs[i].kind = "send"}
Verifies == {i \in Reqs : reqs[i].kind = "verify"}
Done(i) == reqs[i].pc = "done"

\* the request has applied the operation op
Did(i, op) == \E n \in 1..Len(trace) : trace[n].req = i /\ trace[n].op = op

\* the request has touched the store or the notifier
Touched(i) == \E n \in 1..Len(trace) : trace[n].req = i

\* the verifyOTP request has read the record
HasRead(i) == reqs[i].kind = "verify" /\ reqs[i].readAt > 0

\* the time at which the verifyOTP request read the record
ReadTime(i) == reqs[i].readTime

\* the upsert that wrote what the verifyOTP request read: its place in the
\* history, 0 for what the store held at the start
WriterSeen(i) ==
    LET ups == {n \in 1..(reqs[i].readAt - 1) :
                    trace[n].op = "upsert" /\ trace[n].key = reqs[i].formattedPhoneNumber}
    IN IF ups = {} THEN 0 ELSE CHOOSE n \in ups : \A m \in ups : m <= n

\* the request was answered with this status and message
Answered(i, status, message) ==
    /\ Done(i)
    /\ reqs[i].res.status = status
    /\ reqs[i].res.message = message

\* the request was answered with a token
GotToken(i) == Done(i) /\ reqs[i].res.token # Undefined

\* the requests are for the same store key
SameKey(i, j) == reqs[i].formattedPhoneNumber = reqs[j].formattedPhoneNumber

\* the record of the request's key holds this code and this expiry
Holds(i, otp, otpExpires) ==
    LET key == reqs[i].formattedPhoneNumber IN
    /\ key \in DOMAIN users
    /\ users[key].otp = otp
    /\ users[key].otpExpires = otpExpires

\* the string is a national number: digits only
National(s) == Len(s) > 0 /\ \A n \in 1..Len(s) : s[n] \in Digits

\* the country code as it is written in front of a national number
PlusCountryCode == <<"+">> \o CountryCode

\* one string is the national number and the other the same number written
\* with the country code
OtherSpelling(s, t) ==
    \/ National(s) /\ t = PlusCountryCode \o s
    \/ National(t) /\ s = PlusCountryCode \o t

----------------------------------------------------------------------------
(* Claims *)

\* C1: sequential case: a verifyOTP with the code that the sendOTP just before
\* it stored, made no later than the expiry time, returns 200 with a token,
\* and the verifyOTP that follows it with the same phone number and code
\* returns 400 'No OTP found' without a token.
C1_SingleUse ==
    \A i \in Sends : \A j \in Verifies :
        ( /\ j = i + 1
          /\ Did(i, "upsert")
          /\ Done(j)
          /\ reqs[j].body = Body(reqs[i].body.phoneNumber, Str(reqs[i].otp))
          /\ HasRead(j)
          /\ ReadTime(j) <= reqs[i].otpExpires )
        => /\ Answered(j, 200, MsgVerified)
           /\ GotToken(j)
           /\ \A k \in Verifies :
                (k = j + 1 /\ Done(k) /\ reqs[k].body = reqs[j].body)
                => Answered(k, 400, MsgNoOtp) /\ ~GotToken(k)

C1_Witness ==
    \E i \in Sends : \E j, k \in Verifies :
        /\ j = i + 1 /\ k = j + 1
        /\ reqs[j].body = Body(reqs[i].body.phoneNumber, Str(reqs[i].otp))
        /\ reqs[k].body = reqs[j].body
        /\ GotToken(j)
        /\ Answered(k, 400, MsgNoOtp)

\* C2: a code cannot be replayed: no two verifyOTP requests return a token
\* for the same stored code (the code written by one upsert, or the one the
\* store held at the start).
C2_NoReplay ==
    \A i, j \in Verifies :
        (i # j /\ GotToken(i) /\ GotToken(j) /\ SameKey(i, j))
        => WriterSeen(i) # WriterSeen(j)

\* C3: a sendOTP response carries the generated code only in development
\* mode and only when the SMS was not configured or not delivered; in
\* production mode no sendOTP response carries it.
C3_CodeOnlyInDevFallback ==
    \A i \in Sends :
        (Done(i) /\ reqs[i].res.development # Undefined)
        => /\ ~IsProduction
           /\ (~smsConfigured \/ Did(i, "smsFailed"))

\* C4: after two sendOTP for the same number have stored the codes c1 and c2,
\* c1 # c2, a verifyOTP made no later than the expiry of c2 fails as an
\* invalid code with c1 (400, no token, the record as the second sendOTP
\* left it) and succeeds with c2.
C4_LatestCodeOnly ==
    \A i, j \in Sends : \A m \in Verifies :
        ( /\ i < j /\ j < m
          /\ SameKey(i, j) /\ SameKey(j, m)
          /\ Did(i, "upsert") /\ Did(j, "upsert")
          /\ reqs[i].otp # reqs[j].otp
          /\ \A k \in Sends : ~(j < k /\ k < m)
          /\ \A k \in Verifies : (j < k /\ k < m) => ~GotToken(k)
          /\ HasRead(m) /\ Done(m)
          /\ ReadTime(m) <= reqs[j].otpExpires )
        => /\ reqs[m].otp = reqs[i].otp
                => /\ Answered(m, 400, MsgInvalid)
                   /\ ~GotToken(m)
                   /\ ~Did(m, "clear")
                   /\ m = Len(reqs)
                        => Holds(m, Str(reqs[j].otp), Date(reqs[j].otpExpires))
           /\ reqs[m].otp = reqs[j].otp
                => Answered(m, 200, MsgVerified) /\ GotToken(m)

C4_Witness ==
    \E i, j \in Sends : \E m, n \in Verifies :
        /\ j = i + 1 /\ m = j + 1 /\ n = m + 1
        /\ reqs[i].otp # reqs[j].otp
        /\ reqs[m].otp = reqs[i].otp /\ Answered(m, 400, MsgInvalid)
        /\ reqs[n].otp = reqs[j].otp /\ GotToken(n)

\* C5: a verifyOTP that reads a record whose otpExpires is earlier than the
\* time of the read fails with the expired error (400, no token), whatever
\* the candidate, and the record keeps its otp and otpExpires.
C5_ExpiredKeepsCode ==
    \A m \in Verifies :
        ( /\ HasRead(m)
          /\ reqs[m].user # NoUser
          /\ reqs[m].user.otpExpires # Null
          /\ reqs[m].user.otpExpires.v < ReadTime(m) )
        => /\ Answered(m, 400, MsgExpired)
           /\ ~GotToken(m)
           /\ ~Did(m, "clear")
           /\ m = Len(reqs) => Holds(m, reqs[m].user.otp, reqs[m].user.otpExpires)

\* a verifyOTP with the stored code was refused as expired
C5_Witness ==
    \E m \in Verifies :
        /\ HasRead(m)
        /\ reqs[m].user # NoUser
        /\ reqs[m].user.otp = Str(reqs[m].otp)
        /\ reqs[m].user.otpExpires.v < ReadTime(m)
        /\ Answered(m, 400, MsgExpired)
        /\ Holds(m, Str(reqs[m].otp), reqs[m].user.otpExpires)

\* the verifyOTP request read a record with an outstanding code that had
\* not expired at the time of the read
ReadOutstanding(m) ==
    /\ HasRead(m)
    /\ reqs[m].user # NoUser
    /\ ~Falsy(reqs[m].user.otp)
    /\ ~(reqs[m].user.otpExpires.v < ReadTime(m))

\* C6: a verifyOTP whose well-formed candidate differs from the stored,
\* unexpired code returns the invalid-code error and writes nothing to the
\* store; and after any number of such failures following a sendOTP, a
\* verifyOTP with the code of that sendOTP, made no later than its expiry,
\* returns a token.
C6_MismatchNoLockout ==
    /\ \A m \in Verifies :
          (ReadOutstanding(m) /\ Trim(reqs[m].user.otp.v) # reqs[m].otp)
          => /\ Answered(m, 400, MsgInvalid)
             /\ ~GotToken(m)
             /\ ~Did(m, "clear")
             /\ m = Len(reqs) => Holds(m, reqs[m].user.otp, reqs[m].user.otpExpires)
    /\ \A i \in Sends : \A m \in Verifies :
          ( /\ i < m
            /\ Did(i, "upsert")
            /\ \A k \in Reqs : (i < k /\ k < m) =>
                  /\ reqs[k].kind = "verify"
                  /\ SameKey(i, k)
                  /\ Answered(k, 400, MsgInvalid)
            /\ SameKey(i, m)
            /\ reqs[m].otp = reqs[i].otp
            /\ HasRead(m) /\ Done(m)
            /\ ReadTime(m) <= reqs[i].otpExpires )
          => Answered(m, 200, MsgVerified) /\ GotToken(m)

\* two failed attempts, then the right code is accepted
C6_Witness ==
    \E i \in Sends : \E k, l, m \in Verifies :
        /\ k = i + 1 /\ l = k + 1 /\ m = l + 1
        /\ Answered(k, 400, MsgInvalid)
        /\ Answered(l, 400, MsgInvalid)
        /\ reqs[m].otp = reqs[i].otp
        /\ GotToken(m)

\* C7: in every record of the store, otp is null if and only if otpExpires
\* is null.
C7_OtpPairing ==
    \A k \in DOMAIN users : (users[k].otp = Null) <=> (users[k].otpExpires = Null)

\* a verifyOTP has cleared a record while a sendOTP has written one
C7_Witness ==
    /\ \E m \in Verifies : GotToken(m) /\ Holds(m, Null, Null)
    /\ \E i \in Sends : Did(i, "upsert")

\* C8: when the notifier is configured and the delivery fails, sendOTP
\* answers 500 without the code in production mode, and 200 with the
\* generated code and its expiry otherwise.
C8_DeliveryFailure ==
    \A i \in Sends :
        (Done(i) /\ Did(i, "smsFailed"))
        => IF IsProduction
           THEN /\ reqs[i].res.status = 500
                /\ reqs[i].res.success = FALSE
                /\ reqs[i].res.development = Undefined
                /\ reqs[i].res.error = Undefined
           ELSE /\ reqs[i].res.status = 200
                /\ reqs[i].res.success = TRUE
                /\ reqs[i].res.development # Undefined
                /\ reqs[i].res.development.otp = Str(reqs[i].otp)
                /\ reqs[i].res.development.expiresAt = Date(reqs[i].otpExpires)

\* a failed delivery answered with the code, in development mode
C8_Witness ==
    \E i \in Sends :
        /\ smsConfigured /\ ~IsProduction
        /\ Did(i, "smsFailed")
        /\ Done(i)
        /\ reqs[i].res.status = 200
        /\ reqs[i].res.development # Undefined

\* exactly 6 ASCII digits
SixDigits(s) == Len(s) = 6 /\ \A n \in 1..6 : s[n] \in Digits

\* C9: a verifyOTP whose candidate, converted to a string and trimmed, is
\* not exactly 6 digits is answered 400 without a token, and makes no
\* findByPhoneNumber and no clearOTP.
C9_MalformedBeforeStore ==
    \A m \in Verifies :
        ~SixDigits(Trim(ToStr(reqs[m].body.otp)))
        => /\ Done(m)
           /\ reqs[m].res.status = 400
           /\ reqs[m].res.success = FALSE
           /\ ~GotToken(m)
           /\ ~HasRead(m)
           /\ ~Touched(m)

\* a candidate of 7 digits refused for its format while the record of its
\* phone number holds a code
C9_Witness ==
    \E m \in Verifies :
        /\ reqs[m].body.otp = Str(<<"1", "2", "3", "4", "5", "6", "7">>)
        /\ reqs[m].body.phoneNumber = PhoneIN
        /\ Answered(m, 400, MsgFormat)
        /\ formatPhoneNumber(PhoneIN.v) \in DOMAIN users
        /\ ~Falsy(users[formatPhoneNumber(PhoneIN.v)].otp)

\* C10: without a notifier, sendOTP for +15551234567 returns the code, the
\* verifyOTP that follows with that phone number and that code, made no later
\* than the expiry, returns a token, and the phone number in the token is
\* +15551234567.
C10_EndToEnd ==
    \A i \in Sends : \A j \in Verifies :
        ( /\ j = i + 1
          /\ reqs[i].body.phoneNumber = PhoneUS
          /\ Done(i)
          /\ Done(j)
          /\ reqs[j].body.phoneNumber = PhoneUS
          /\ reqs[j].body.otp = Str(reqs[i].otp)
          /\ ReadTime(j) <= reqs[i].otpExpires )
        => /\ reqs[i].res.development # Undefined
           /\ reqs[i].res.development.otp = Str(reqs[i].otp)
           /\ GotToken(j)
           /\ reqs[j].res.token.phoneNumber = PhoneUS.v

\* C11: for every national digit string d, formatPhoneNumber gives the same
\* key for d and for '+91' followed by d, and formatPhoneNumber is
\* idempotent, so a code issued under one spelling is verified under the
\* other.
C11_SpellingsAgree ==
    /\ \A i \in Reqs :
          formatPhoneNumber(reqs[i].formattedPhoneNumber) = reqs[i].formattedPhoneNumber
    /\ \A i, j \in Reqs :
          ( /\ National(reqs[i].body.phoneNumber.v)
            /\ reqs[j].body.phoneNumber.v = PlusCountryCode \o reqs[i].body.phoneNumber.v )
          => SameKey(i, j)
    /\ \A i \in Sends : \A j \in Verifies :
          ( /\ j = i + 1
            /\ Did(i, "upsert")
            /\ Done(j)
            /\ OtherSpelling(reqs[i].body.phoneNumber.v, reqs[j].body.phoneNumber.v)
            /\ reqs[j].body.otp = Str(reqs[i].otp)
            /\ HasRead(j)
            /\ ReadTime(j) <= reqs[i].otpExpires )
          => GotToken(j)

\* the status and message that the first failing check of the list gives for
\* the body of the verifyOTP request and the record it read
FirstFailing(m) ==
    LET body == reqs[m].body
        user == reqs[m].user
        candidate == Trim(ToStr(body.otp))
    IN IF Falsy(body.phoneNumber) THEN <<400, "Phone number is required">>
       ELSE IF Falsy(body.otp) THEN <<400, "OTP is required">>
       ELSE IF ~SixDigits(candidate) THEN <<400, MsgFormat>>
       ELSE IF user = NoUser THEN <<404, "User not found">>
       ELSE IF Falsy(user.otp) THEN <<400, MsgNoOtp>>
       ELSE IF user.otpExpires.t = "date" /\ user.otpExpires.v < ReadTime(m)
            THEN <<400, MsgExpired>>
       ELSE IF Trim(ToStr(user.otp)) # candidate THEN <<400, MsgInvalid>>
       ELSE <<200, MsgVerified>>

\* C12: the outcome of verifyOTP is that of the first failing check in the
\* order: missing phone number or code (400), malformed code (400), no record
\* (404), record without a code (400), expired code (400), mismatch (400),
\* otherwise 200 with a token; a token is present exactly when the status is
\* 200.
C12_CheckOrder ==
    \A m \in Verifies :
        Done(m) =>
            /\ Answered(m, FirstFailing(m)[1], FirstFailing(m)[2])
            /\ GotToken(m) <=> reqs[m].res.status = 200
            /\ HasRead(m) <=> FirstFailing(m)[2] \notin
                    {"Phone number is required", "OTP is required", MsgFormat}
            /\ (m = Len(reqs) /\ HasRead(m) /\ reqs[m].res.status # 200)
                 => reqs[m].user = findByPhoneNumber(users, reqs[m].formattedPhoneNumber)

C12_Witness ==
    /\ \E m \in Verifies :
          /\ reqs[m].user # NoUser
          /\ reqs[m].user.otpExpires.t = "date"
          /\ reqs[m].user.otpExpires.v < ReadTime(m)
          /\ reqs[m].user.otp # reqs[m].body.otp
          /\ Answered(m, 400, MsgExpired)
    /\ \E m \in Verifies :
          /\ reqs[m].body = Body(Undefined, MalformedCode)
          /\ Answered(m, 400, "Phone number is required")

\* C13: in production mode no failure response of sendOTP, of verifyOTP or of
\* the error handling middleware carries the message of the underlying
\* error.
C13_NoDiagnosticsInProduction ==
    IsProduction =>
        \A i \in Reqs :
            (Done(i) /\ ~reqs[i].res.success) => reqs[i].res.error = Undefined

\* the operations that record a collaborator that threw
StoreOrSignerFailures == {"upsertFailed", "findFailed", "clearFailed", "signFailed"}

\* the store or the token signer threw during the request, or its phone
\* number could not be formatted
ThrewFatal(i) ==
    \/ \E op \in StoreOrSignerFailures : Did(i, op)
    \/ /\ reqs[i].kind \in {"send", "verify"}
       /\ reqs[i].pc = "done"
       /\ reqs[i].res.message \in {"Failed to generate and send OTP", "Server error"}

\* the request was answered with the failure envelope
FailureEnvelope(i) ==
    /\ Done(i)
    /\ reqs[i].res.t = "res"
    /\ reqs[i].res.success = FALSE
    /\ reqs[i].res.message # ""
    /\ reqs[i].res.token = Undefined

\* C14 as it is stated: every failure of the store, the notifier or the
\* signer is caught inside the handler and answered with an envelope having
\* success false and a message, and no exception leaves the handler.
C14_EveryFailureAnsweredFalse ==
    \A i \in Reqs :
        /\ reqs[i].pc # "unhandled"
        /\ (\E op \in StoreOrSignerFailures \cup {"smsFailed"} : Did(i, op))
             => FailureEnvelope(i)

\* C14: every sendOTP and verifyOTP request gets one response, which never
\* changes afterwards, and no exception leaves the handler: a failure of the
\* store or of the signer, and a failure of the notifier in production mode,
\* is answered 500 with success false and a message; a failure of the
\* notifier outside production mode is answered with the 200 fallback
\* response.
C14_OneResponse ==
    [][\A i \in 1..Len(reqs') :
        /\ reqs'[i].pc # "unhandled"
        /\ (i <= Len(reqs) /\ reqs[i].pc = "done") => reqs'[i] = reqs[i]
        /\ reqs'[i].pc = "done" => reqs'[i].res.t = "res"
        /\ ThrewFatal(i)' => (FailureEnvelope(i)' /\ reqs'[i].res.status = 500)
        /\ Did(i, "smsFailed")' =>
              IF IsProduction
              THEN FailureEnvelope(i)' /\ reqs'[i].res.status = 500
              ELSE reqs'[i].pc = "done" /\ reqs'[i].res.status = 200
                   /\ reqs'[i].res.success = TRUE
      ]_vars

C14_Witness ==
    /\ \E i \in Sends : Did(i, "upsertFailed") /\ Answered(i, 500, "Failed to generate and send OTP")
    /\ \E i \in Verifies : Did(i, "signFailed") /\ Answered(i, 500, "Server error")

\* the places in the history of the operations of this kind made by the
\* request
Places(i, ops) == {n \in 1..Len(trace) : trace[n].req = i /\ trace[n].op \in ops}

\* C15: a sendOTP request with a non-empty phone number calls the upsert of
\* the store exactly once and the notifier at most once, the upsert before
\* the notifier; a sendOTP request with a missing or empty phone number is
\* answered 400 and calls neither.
C15_OneUpsertThenNotify ==
    \A i \in Sends :
        LET upserts == Places(i, {"upsert", "upsertFailed"})
            notifications == Places(i, {"sms", "smsFailed"})
            phoneNumber == reqs[i].body.phoneNumber
        IN /\ (Done(i) /\ phoneNumber.t = "str" /\ phoneNumber.v # <<>>)
                => Cardinality(upserts) = 1
           /\ Cardinality(upserts) <= 1
           /\ Cardinality(notifications) <= 1
           /\ \A n \in notifications : \E u \in upserts : u < n /\ trace[u].op = "upsert"
           /\ (Done(i) /\ smsConfigured /\ Did(i, "upsert")) => Cardinality(notifications) = 1
           /\ Falsy(phoneNumber)
                => Answered(i, 400, "Phone number is required") /\ ~Touched(i)

C15_Witness ==
    /\ \E i \in Sends : Done(i) /\ Did(i, "upsert") /\ Did(i, "sms")
    /\ \E i \in Sends : Falsy(reqs[i].body.phoneNumber) /\ Done(i) /\ ~Touched(i)

\* the number that a string of digits denotes
DigitValue(c) == CHOOSE n \in 0..9 : DigitChars[n + 1] = c

RECURSIVE StrToNat(_)
StrToNat(s) ==
    IF s = <<>> THEN 0
    ELSE 10 * StrToNat(SubSeq(s, 1, Len(s) - 1)) + DigitValue(s[Len(s)])

\* C16: the store starting empty, the records are those of the normalized
\* numbers that sendOTP has upserted, one each; the code of a sendOTP is a
\* string of 6 digits with a value in 100000..999999 and no leading zero, its
\* otpExpires is the time of issue plus 10 minutes, and every code in the
\* store passes the format check of verifyOTP.
C16_IssuedCode ==
    /\ DOMAIN users =
          {formatPhoneNumber(reqs[i].body.phoneNumber.v) : i \in {j \in Sends : Did(j, "upsert")}}
    /\ \A key \in DOMAIN users : users[key].phoneNumber = key
    /\ \A i \in Sends :
          Did(i, "upsert") =>
              /\ SixDigits(reqs[i].otp)
              /\ reqs[i].otp[1] # "0"
              /\ StrToNat(reqs[i].otp) \in 100000..999999
              /\ reqs[i].otpExpires = reqs[i].issuedAt + 10 * 60 * 1000
              /\ i = Len(reqs) => Holds(i, Str(reqs[i].otp), Date(reqs[i].otpExpires))
    /\ \A key \in DOMAIN users :
          ~Falsy(users[key].otp) => otpRegex(CleanOtp(users[key].otp))

C16_Witness ==
    \E i, j \in Sends :
        /\ i < j
        /\ Did(i, "upsert") /\ Did(j, "upsert")
        /\ ~SameKey(i, j)
        /\ Cardinality(DOMAIN users) = 2
        /\ reqs[i].otp # reqs[j].otp
        /\ reqs[j].issuedAt > 0
        /\ Holds(j, Str(reqs[j].otp), Date(reqs[j].issuedAt + 10 * 60 * 1000))

\* the places in the history of the writes to the record of the key
Writes(key) ==
    {n \in 1..Len(trace) : trace[n].key = key /\ trace[n].op \in {"upsert", "clear"}}

\* the last of them
LastWrite(key) == CHOOSE n \in Writes(key) : \A m \in Writes(key) : m <= n

\* C17: the last write to the store wins: when two sendOTP requests for the
\* same number have both completed, the record holds the code and the expiry
\* of the one whose upsert was applied last (unless another request wrote to
\* the record after it), while the response of each request reports its own
\* code.
C17_LastWriteWins ==
    /\ \A i, j \in Sends :
          ( /\ i # j /\ SameKey(i, j)
            /\ Done(i) /\ Done(j)
            /\ Did(i, "upsert") /\ Did(j, "upsert") )
          => LET write == trace[LastWrite(reqs[i].formattedPhoneNumber)]
                 last == write.req
                 other == IF last = i THEN j ELSE i
             IN (write.op = "upsert" /\ last \in {i, j})
                => /\ Holds(last, Str(reqs[last].otp), Date(reqs[last].otpExpires))
                   /\ reqs[other].otp # reqs[last].otp
                        => ~Holds(other, Str(reqs[other].otp), Date(reqs[other].otpExpires))
    /\ \A i \in Sends :
          (Done(i) /\ reqs[i].res.development # Undefined)
          => /\ reqs[i].res.development.otp = Str(reqs[i].otp)
             /\ reqs[i].res.development.expiresAt = Date(reqs[i].otpExpires)

\* the request that arrived first is the one whose upsert was applied last
C17_Witness ==
    \E i, j \in Sends :
        /\ i < j /\ SameKey(i, j)
        /\ Done(i) /\ Done(j)
        /\ reqs[i].otp # reqs[j].otp
        /\ LastWrite(reqs[i].formattedPhoneNumber) \in Places(i, {"upsert"})
        /\ Places(j, {"upsert"}) # {}
        /\ Holds(i, Str(reqs[i].otp), Date(reqs[i].otpExpires))
        /\ reqs[j].res.development # Undefined
        /\ reqs[j].res.development.otp = Str(reqs[j].otp)

\* C18: the clearOTP of a verifyOTP never removes a code written by a sendOTP
\* whose upsert was applied after the verifyOTP read the record.
C18_ClearKeepsNewerCode ==
    \A n \in 1..Len(trace) :
        trace[n].op = "clear" =>
            \A u \in (reqs[trace[n].req].readAt + 1)..(n - 1) :
                ~(trace[u].op = "upsert" /\ trace[u].key = trace[n].key)

\* the store holds what it held when the process started
StoreAsAtStart == users \in {EmptyStore, StoredBefore}

\* C19 as it is stated: a sendOTP request that is answered 400 or 500 leaves
\* the store unchanged.
C19_FailedSendWritesNothing ==
    \A i \in Sends :
        (Done(i) /\ reqs[i].res.status \in {400, 500})
        => /\ ~Did(i, "upsert")
           /\ i = 1 /\ Len(reqs) = 1 => StoreAsAtStart

\* C19: a sendOTP request that is answered 400, or 500 by its catch block,
\* leaves the store unchanged; a sendOTP request that is answered 500 because
\* the delivery failed in production mode has applied its upsert, and the
\* record holds the code and the expiry of that request.
C19_FailedSendStore ==
    \A i \in Sends :
        (Done(i) /\ reqs[i].res.status \in {400, 500})
        => IF reqs[i].res.message = "Failed to send OTP via SMS"
           THEN /\ IsProduction
                /\ Did(i, "upsert") /\ Did(i, "smsFailed")
                /\ i = Len(reqs)
                     => Holds(i, Str(reqs[i].otp), Date(reqs[i].otpExpires))
           ELSE /\ ~Did(i, "upsert")
                /\ i = 1 /\ Len(reqs) = 1 => StoreAsAtStart

\* a code was outstanding, the delivery of a new one failed in production
\* mode, and the record holds the new code
C19_Witness ==
    /\ \E i \in Sends :
          /\ i = 1 /\ Len(reqs) = 1
          /\ Answered(i, 500, "Failed to send OTP via SMS")
          /\ reqs[i].otp = NatToString(999999)
          /\ Holds(i, Str(reqs[i].otp), Date(reqs[i].otpExpires))
          /\ ~StoreAsAtStart

\* C20 as it is stated: a verifyOTP request that ends with a response other
\* than 200 leaves the record's otp and otpExpires unchanged.
C20_FailedVerifyKeepsCode ==
    \A m \in Verifies :
        (Done(m) /\ reqs[m].res.status # 200)
        => /\ ~Did(m, "clear")
           /\ (m = Len(reqs) /\ HasRead(m))
                => reqs[m].user = findByPhoneNumber(users, reqs[m].formattedPhoneNumber)

\* C20: a verifyOTP request that ends with a response other than 200 leaves
\* the record's otp and otpExpires unchanged, also when clearOTP fails,
\* unless the token signing failed after the code matched: then clearOTP was
\* applied, the record holds no code and the response is 500 without a
\* token. A request answered 200 has cleared the code.
C20_FailedVerifyStore ==
    \A m \in Verifies :
        Done(m) =>
            IF reqs[m].res.status = 200
            THEN Did(m, "clear") /\ GotToken(m)
            ELSE IF Did(m, "signFailed")
            THEN /\ Answered(m, 500, "Server error") /\ ~GotToken(m)
                 /\ Did(m, "clear")
                 /\ m = Len(reqs) => Holds(m, Null, Null)
            ELSE /\ ~Did(m, "clear")
                 /\ (m = Len(reqs) /\ HasRead(m))
                      => reqs[m].user = findByPhoneNumber(users, reqs[m].formattedPhoneNumber)

C20_Witness ==
    /\ \E m \in Verifies :
          /\ Did(m, "clearFailed")
          /\ Answered(m, 500, "Server error")
          /\ ~Falsy(reqs[m].user.otp)
    /\ \E m \in Verifies :
          /\ m = Len(reqs)
          /\ Did(m, "signFailed")
          /\ Answered(m, 500, "Server error")
          /\ Holds(m, Null, Null)

TypeOK ==
    /\ now >= 0
    /\ \A i \in 1..Len(reqs) : reqs[i].kind \in {"send", "verify", "unparsed"}

====
